---- MODULE Spec2Model ----
(***************************************************************************)
(* A model of the ulauncher FontAwesome search extension:                  *)
(*   main.py        the extension object, the preference handlers, the     *)
(*                  icon search (_search_icons) and the memoised content   *)
(*                  generator (get_copy_content under lru_cache);          *)
(*   svg_helper.py  the recolor engine (modify_svg_color,                  *)
(*                  update_svg_colors).                                    *)
(*                                                                         *)
(* Text is a sequence of atoms.  An atom is one character, except that the *)
(* two literals the code searches for, '<svg' and 'fill=', are atoms of    *)
(* their own; no run of the other atoms spells either literal, so          *)
(* substring tests and the regular expression of the code act on atoms     *)
(* exactly as they act on characters.                                      *)
(***************************************************************************)
EXTENDS Integers, Sequences, FiniteSets, TLC

VARIABLES
    fs,            \* the filesystem: path -> [content, perm], NoFile when absent
    icons_dir_ok,  \* whether os.listdir(icons_dir) succeeds
    prev_fs,       \* the filesystem as it was before the last operation
    arg_path,      \* modify_svg_color: the svg_path argument
    arg_color,     \* modify_svg_color: the color argument
    ret,           \* the value the last modify_svg_color call returned
    calls,         \* the paths the last pass handed to modify_svg_color, in order
    step,          \* how many operations have run
    icon_color,    \* extension.icon_color
    copy_format,   \* extension.copy_format
    max_results,   \* extension.max_results (0 until the preferences event sets it)
    event,         \* the last event dispatched to a listener, or the function
                   \* last called directly
    icons_data,    \* extension.icons_data, in insertion order
    query,         \* the argument of the keyword query
    ranked,        \* _search_icons: matched_icons after the sort, before the slice
    matched,       \* _search_icons: the returned list
    items,         \* the result items of the last keyword query
    cache,         \* lru_cache of get_copy_content, least recently used first
    last_key,      \* the argument tuple of the last direct get_copy_content call
    out,           \* the value that call returned
    did_read,      \* whether that call opened the asset file
    prev_call,     \* the call of the same tuple before it: whether there was one,
                   \* what it returned, and the other tuples called in between
    hist           \* per tracked tuple: the record prev_call is taken from

engineVars == <<icons_dir_ok, arg_path, arg_color, ret, calls>>
extensionVars == <<icon_color, copy_format, max_results, event>>
searchVars == <<icons_data, query, ranked, matched, items>>
cacheVars == <<cache, last_key, out, did_read, prev_call, hist>>

vars == <<fs, prev_fs, step, engineVars, extensionVars, searchVars, cacheVars>>

\* A path with no file behind it.
NoFile == [content |-> <<>>, perm |-> "absent"]

(***************************************************************************)
(* Text                                                                    *)
(***************************************************************************)
SVG == "<svg"
FILL == "fill="
QUOTE == "\""

\* Python's `x in s` for text: s holds x as a contiguous run.
Contains(s, x) ==
    \E i \in 0..(Len(s) - Len(x)) : \A k \in 1..Len(x) : s[i + k] = x[k]

\* The f-string f'fill="{color}"'.
FillAttr(color) == <<FILL, QUOTE>> \o color \o <<QUOTE>>

\* str.replace('<svg', f'<svg fill="{color}"'): every occurrence is replaced.
RECURSIVE ReplaceSvg(_, _)
ReplaceSvg(s, color) ==
    IF s = <<>> THEN <<>>
    ELSE IF Head(s) = SVG
         THEN <<SVG, " ">> \o FillAttr(color) \o ReplaceSvg(Tail(s), color)
         ELSE <<Head(s)>> \o ReplaceSvg(Tail(s), color)

\* The index of the first QUOTE of s at or after i, 0 when there is none.
RECURSIVE NextQuote(_, _)
NextQuote(s, i) ==
    IF i > Len(s) THEN 0
    ELSE IF s[i] = QUOTE THEN i
    ELSE NextQuote(s, i + 1)

\* re.sub(r'fill="[^"]*"', f'fill="{color}"', s) from index i on: the leftmost
\* non-overlapping matches of fill=" ... " are replaced, the rest is kept.
RECURSIVE ReSubFrom(_, _, _)
ReSubFrom(s, i, color) ==
    IF i > Len(s) THEN <<>>
    ELSE IF /\ s[i] = FILL
            /\ i + 1 <= Len(s)
            /\ s[i + 1] = QUOTE
            /\ NextQuote(s, i + 2) # 0
         THEN FillAttr(color) \o ReSubFrom(s, NextQuote(s, i + 2) + 1, color)
         ELSE <<s[i]>> \o ReSubFrom(s, i + 1, color)

ReSub(s, color) == ReSubFrom(s, 1, color)

(***************************************************************************)
(* The filesystem                                                          *)
(***************************************************************************)
FALLBACK_ICON == "images/icon.svg"
ICON_A == "images/icons/a.svg"
ICON_B == "images/icons/b.svg"
NOTES_TXT == "images/icons/notes.txt"

Path == {FALLBACK_ICON, ICON_A, ICON_B, NOTES_TXT}

\* The entries of images/icons.
IconsDirEntries == {ICON_A, ICON_B, NOTES_TXT}

\* str.endswith('.svg') on the entries.
EndsWithSvg(p) == p \in {ICON_A, ICON_B}

\* os.path.exists
Exists(files, p) == p \in DOMAIN files /\ files[p].perm # "absent"

\* open(p, 'r') succeeds; perm is "rw", "r" (read-only) or "-" (no access).
CanRead(files, p) == Exists(files, p) /\ files[p].perm \in {"rw", "r"}

\* open(p, 'w') succeeds.
CanWrite(files, p) == Exists(files, p) /\ files[p].perm = "rw"

(***************************************************************************)
(* svg_helper.modify_svg_color                                             *)
(***************************************************************************)
\* A variant that always takes the insertion branch, whether or not a fill exists.
NewSvgContent_AlwaysInsert(svg_content, color) == ReplaceSvg(svg_content, color)

\* Lines 34-38: the text written back for a document that holds '<svg'.
NewSvgContent(svg_content, color) ==
    IF ~Contains(svg_content, <<FILL>>)
    THEN ReplaceSvg(svg_content, color)
    ELSE ReSub(svg_content, color)

\* A variant without the '<svg' test of line 34: any readable, writable file is
\* rewritten.
modify_svg_color_NoSvgTest(files, svg_path, color) ==
    IF CanRead(files, svg_path) /\ CanWrite(files, svg_path)
    THEN [fs |-> [files EXCEPT ![svg_path].content =
                      NewSvgContent(files[svg_path].content, color)],
          ret |-> TRUE]
    ELSE [fs |-> files, ret |-> FALSE]

\* The whole function: the filesystem it leaves and the value it returns.  Every
\* exception (a failed open for reading or writing) is caught and gives False.
modify_svg_color(files, svg_path, color) ==
    IF ~Exists(files, svg_path) THEN [fs |-> files, ret |-> FALSE]
    ELSE IF ~CanRead(files, svg_path) THEN [fs |-> files, ret |-> FALSE]
    ELSE IF Contains(files[svg_path].content, <<SVG>>)
         THEN IF CanWrite(files, svg_path)
              THEN [fs |-> [files EXCEPT ![svg_path].content =
                                NewSvgContent(files[svg_path].content, color)],
                    ret |-> TRUE]
              ELSE [fs |-> files, ret |-> FALSE]
         ELSE [fs |-> files, ret |-> FALSE]


(***************************************************************************)
(* svg_helper.update_svg_colors                                            *)
(***************************************************************************)
\* Lines 16-19: the loop over os.listdir(icons_dir), in the order `order`.  No
\* iteration can raise, modify_svg_color catching everything itself.
RECURSIVE ListLoop(_, _, _, _)
ListLoop(files, order, color, log) ==
    IF order = <<>> THEN [fs |-> files, calls |-> log]
    ELSE IF EndsWithSvg(Head(order))
         THEN ListLoop(modify_svg_color(files, Head(order), color).fs,
                       Tail(order), color, Append(log, Head(order)))
         ELSE ListLoop(files, Tail(order), color, log)

\* A variant in which the first file that cannot be recolored ends the pass, as
\* if its failure reached the handler of line 20.
RECURSIVE ListLoop_Abort(_, _, _, _)
ListLoop_Abort(files, order, color, log) ==
    IF order = <<>> THEN [fs |-> files, calls |-> log]
    ELSE IF EndsWithSvg(Head(order))
         THEN IF modify_svg_color(files, Head(order), color).ret
              THEN ListLoop_Abort(modify_svg_color(files, Head(order), color).fs,
                                  Tail(order), color, Append(log, Head(order)))
              ELSE [fs |-> files, calls |-> Append(log, Head(order))]
         ELSE ListLoop_Abort(files, Tail(order), color, log)

update_svg_colors_AbortOnFailure(files, dir_ok, order, color) ==
    LET first == modify_svg_color(files, FALLBACK_ICON, color)
    IN  IF dir_ok /\ first.ret
        THEN ListLoop_Abort(first.fs, order, color, <<FALLBACK_ICON>>)
        ELSE [fs |-> first.fs, calls |-> <<FALLBACK_ICON>>]

\* The whole pass: the fallback icon first, then the listing; a failing
\* os.listdir is caught and ends the pass.
update_svg_colors(files, dir_ok, order, color) ==
    LET first == modify_svg_color(files, FALLBACK_ICON, color).fs
    IN  IF dir_ok
        THEN ListLoop(first, order, color, <<FALLBACK_ICON>>)
        ELSE [fs |-> first, calls |-> <<FALLBACK_ICON>>]

\* os.listdir(icons_dir): the entries that exist, in any order.
Listings(files) ==
    LET present == {p \in IconsDirEntries : Exists(files, p)}
    IN  {o \in [1..Cardinality(present) -> present] :
            \A i, j \in 1..Cardinality(present) : o[i] = o[j] => i = j}

(***************************************************************************)
(* main.KeywordQueryEventListener._search_icons                            *)
(***************************************************************************)
\* str.lower on the characters of the model.
LowerChar(c) == IF c = "A" THEN "a" ELSE IF c = "B" THEN "b" ELSE c

Lower(s) == [i \in 1..Len(s) |-> LowerChar(s[i])]

\* str.startswith
StartsWith(s, x) == Len(x) <= Len(s) /\ SubSeq(s, 1, Len(x)) = x

\* Lines 108-109: q, already lower-cased, is in the name or in a search term.
IsMatch(icon, q) ==
    \/ Contains(Lower(icon.name), q)
    \/ \E k \in 1..Len(icon.search_terms) : Contains(Lower(icon.search_terms[k]), q)

\* A sort key that does not tell a prefix match from a match further in.
SortKey_NoPrefixTier(icon, q) ==
    IF Lower(icon.name) = q THEN 0
    ELSE IF Contains(Lower(icon.name), q) THEN 2
    ELSE 3

\* Lines 113-118: the sort key.
SortKey(icon, q) ==
    IF Lower(icon.name) = q THEN 0
    ELSE IF StartsWith(Lower(icon.name), q) THEN 1
    ELSE IF Contains(Lower(icon.name), q) THEN 2
    ELSE 3

\* list.sort(key=...): a stable sort, here by insertion.  x goes after every
\* element of the sorted list whose key is not greater than its own.
RECURSIVE InsertByKey(_, _, _)
InsertByKey(sorted, x, q) ==
    IF sorted = <<>> THEN <<x>>
    ELSE IF SortKey(Head(sorted), q) <= SortKey(x, q)
         THEN <<Head(sorted)>> \o InsertByKey(Tail(sorted), x, q)
         ELSE <<x>> \o sorted

RECURSIVE SortByKey(_, _)
SortByKey(list, q) ==
    IF list = <<>> THEN <<>>
    ELSE InsertByKey(SortByKey(SubSeq(list, 1, Len(list) - 1), q), list[Len(list)], q)

\* Line 121: the slice [:10].
RESULT_LIMIT == 10

Take(list, n) == SubSeq(list, 1, IF Len(list) < n THEN Len(list) ELSE n)

\* The whole method; `sorted` is matched_icons after line 118.
search_icons(q0, data) ==
    LET q == Lower(q0)
        Test(icon) == IsMatch(icon, q)
        sorted == SortByKey(SelectSeq(data, Test), q)
    IN  [sorted |-> sorted, result |-> Take(sorted, RESULT_LIMIT)]

(***************************************************************************)
(* main.get_copy_content and its lru_cache                                 *)
(***************************************************************************)
\* Line 174.
StyleShort(style) ==
    IF style = "solid" THEN "s" ELSE IF style = "regular" THEN "r" ELSE "b"

\* f'<i class="fa{style_short} fa-{icon_name}"></i>'
HtmlText(style_short, icon_name) ==
    <<"<i class=\"fa", style_short, " fa-">> \o icon_name \o <<"\"></i>">>

\* f'fa{style_short} fa-{icon_name}'
ClassText(style_short, icon_name) == <<"fa", style_short, " fa-">> \o icon_name

\* os.path.join(base_dir, "images", "icons", f"{icon_id}.svg"); the filesystem
\* of the model holds the assets of the ids a and b only.
NO_SUCH_ICON == "images/icons/?.svg"

SvgPath(icon_id) ==
    IF icon_id = <<"a">> THEN ICON_A
    ELSE IF icon_id = <<"b">> THEN ICON_B
    ELSE NO_SUCH_ICON

\* A variant whose svg branch lets a failed open escape and has no fallback for
\* a missing file.
CopyContent_NoFallback(files, k) ==
    IF k.format_type = "html" THEN HtmlText(StyleShort(k.style), k.icon_name)
    ELSE IF k.format_type = "class" THEN ClassText(StyleShort(k.style), k.icon_name)
    ELSE IF k.format_type = "unicode"
         THEN IF k.unicode_value # <<>>
              THEN <<"&#">> \o k.unicode_value \o <<";">>
              ELSE ClassText(StyleShort(k.style), k.icon_name)
    ELSE IF k.format_type = "svg"
         THEN IF CanRead(files, SvgPath(k.icon_id))
              THEN files[SvgPath(k.icon_id)].content
              ELSE <<"raised">>
    ELSE ClassText(StyleShort(k.style), k.icon_name)

\* Lines 174-195, the function under the decorator; k is the argument tuple.
CopyContent(files, k) ==
    IF k.format_type = "html" THEN HtmlText(StyleShort(k.style), k.icon_name)
    ELSE IF k.format_type = "class" THEN ClassText(StyleShort(k.style), k.icon_name)
    ELSE IF k.format_type = "unicode"
         THEN IF k.unicode_value # <<>>
              THEN <<"&#">> \o k.unicode_value \o <<";">>
              ELSE ClassText(StyleShort(k.style), k.icon_name)
    ELSE IF k.format_type = "svg"
         THEN IF Exists(files, SvgPath(k.icon_id))
              THEN IF CanRead(files, SvgPath(k.icon_id))
                   THEN files[SvgPath(k.icon_id)].content
                   ELSE HtmlText(StyleShort(k.style), k.icon_name)
              ELSE HtmlText(StyleShort(k.style), k.icon_name)
    ELSE HtmlText(StyleShort(k.style), k.icon_name)

\* Whether computing the content opens the asset file (lines 186-188).
OpensFile(files, k) == k.format_type = "svg" /\ Exists(files, SvgPath(k.icon_id))

\* Line 171: lru_cache(maxsize=64).
maxsize == 64

\* The index of k in the cache, 0 when it is not cached.
CacheIndex(c, k) ==
    IF \E i \in 1..Len(c) : c[i].key = k
    THEN CHOOSE i \in 1..Len(c) : c[i].key = k
    ELSE 0

\* c without its i-th entry.
Without(c, i) == SubSeq(c, 1, i - 1) \o SubSeq(c, i + 1, Len(c))

\* A cache that holds one entry fewer: it evicts on reaching maxsize.
get_copy_content_SmallerCache(c, files, k) ==
    LET i == CacheIndex(c, k)
    IN  IF i # 0
        THEN [cache |-> Append(Without(c, i), c[i]),
              out |-> c[i].value,
              did_read |-> FALSE]
        ELSE LET v == CopyContent(files, k)
                 full == Append(c, [key |-> k, value |-> v])
             IN  [cache |-> IF Len(full) >= maxsize THEN Tail(full) ELSE full,
                  out |-> v,
                  did_read |-> OpensFile(files, k)]

\* A cache that never evicts.
get_copy_content_Unbounded(c, files, k) ==
    LET i == CacheIndex(c, k)
    IN  IF i # 0
        THEN [cache |-> Append(Without(c, i), c[i]),
              out |-> c[i].value,
              did_read |-> FALSE]
        ELSE [cache |-> Append(c, [key |-> k, value |-> CopyContent(files, k)]),
              out |-> CopyContent(files, k),
              did_read |-> OpensFile(files, k)]

\* A call through the decorator: a hit returns the stored value and makes the
\* entry the most recent; a miss computes, stores, and evicts the least
\* recently used entry once more than maxsize are held.
get_copy_content(c, files, k) ==
    LET i == CacheIndex(c, k)
    IN  IF i # 0
        THEN [cache |-> Append(Without(c, i), c[i]),
              out |-> c[i].value,
              did_read |-> FALSE]
        ELSE LET v == CopyContent(files, k)
                 full == Append(c, [key |-> k, value |-> v])
             IN  [cache |-> IF Len(full) > maxsize THEN Tail(full) ELSE full,
                  out |-> v,
                  did_read |-> OpensFile(files, k)]

(***************************************************************************)
(* main: the event listeners                                               *)
(***************************************************************************)
\* Lines 19-20 ('#7dcfff', shortened to two characters) and the default of line 54.
DEFAULT_COPY_FORMAT == "html"
DEFAULT_ICON_COLOR == <<"#", "7">>
DEFAULT_MAX_RESULTS == 10

\* os.path.dirname(__file__)
BASE_DIR == "extension"

\* No argument tuple.
NoKey ==
    [format_type |-> "none", icon_name |-> <<>>, icon_id |-> <<>>,
     unicode_value |-> <<>>, style |-> "none", base_dir |-> "none"]

\* No earlier call of a tuple.
NoCall == [called |-> FALSE, out |-> <<>>, others |-> {}]

\* Lines 129-148: the argument tuple built for one matched icon.
KeyOf(fmt, icon) ==
    [format_type |-> fmt,
     icon_name |-> icon.name,
     icon_id |-> icon.id,
     unicode_value |-> icon.unicode,
     style |-> IF icon.styles # <<>> THEN icon.styles[1] ELSE "solid",
     base_dir |-> BASE_DIR]

\* _create_results: one item per matched icon, each with the copy content that
\* get_copy_content gives through the cache c.  The description text of an item
\* is display only and is left out.
RECURSIVE create_results(_, _, _, _, _)
create_results(list, files, fmt, c, acc) ==
    IF list = <<>> THEN [cache |-> c, items |-> acc]
    ELSE LET icon == Head(list)
             g == get_copy_content(c, files, KeyOf(fmt, icon))
             item == [icon |-> IF Exists(files, SvgPath(icon.id))
                               THEN SvgPath(icon.id)
                               ELSE FALLBACK_ICON,
                      name |-> icon.name,
                      copy |-> g.out]
         IN  create_results(Tail(list), files, fmt, g.cache, Append(acc, item))

\* An item that only hides the window.
Notice(text) == [icon |-> FALLBACK_ICON, name |-> <<text>>, copy |-> <<>>]

\* Preferences as the host sends them; `given` tells whether the keys are there.
PreferenceValues(formats, colors, limits) ==
    [given : BOOLEAN, copy_format : formats, icon_color : colors, max_results : limits]

\* PreferencesEventListener.on_event, lines 51-57.  The host sends this event
\* once, when the extension starts.  Line 54 reads max_results from
\* extension.preferences, which the host has filled from the same preferences.
PreferencesEvent(prefs) ==
    /\ event = "none"
    /\ LET color == IF prefs.given THEN prefs.icon_color ELSE DEFAULT_ICON_COLOR
       IN  /\ copy_format' = IF prefs.given THEN prefs.copy_format
                                            ELSE DEFAULT_COPY_FORMAT
           /\ icon_color' = color
           /\ max_results' = IF prefs.given THEN prefs.max_results
                                            ELSE DEFAULT_MAX_RESULTS
           /\ \E order \in Listings(fs) :
                 LET pass == update_svg_colors(fs, icons_dir_ok, order, color)
                 IN  /\ fs' = pass.fs
                     /\ calls' = pass.calls
    /\ prev_fs' = fs
    /\ event' = "PreferencesEvent"
    /\ UNCHANGED <<step, icons_dir_ok, arg_path, arg_color, ret, searchVars, cacheVars>>

\* PreferencesUpdateEventListener.on_event, lines 62-63.
UpdateCopyFormat(new_value) ==
    /\ event # "none"
    /\ copy_format' = new_value
    /\ prev_fs' = fs
    /\ event' = "PreferencesUpdate:copy_format"
    /\ UNCHANGED <<fs, step, engineVars, icon_color, max_results, searchVars, cacheVars>>

\* A variant of lines 64-67 that stores the color and runs no pass.
UpdateIconColor_NoPass(new_value) ==
    /\ event # "none"
    /\ icon_color' = new_value
    /\ prev_fs' = fs
    /\ event' = "PreferencesUpdate:icon_color"
    /\ UNCHANGED <<fs, step, engineVars, copy_format, max_results, searchVars, cacheVars>>

\* PreferencesUpdateEventListener.on_event, lines 64-67.
UpdateIconColor(new_value) ==
    /\ event # "none"
    /\ icon_color' = new_value
    /\ \E order \in Listings(fs) :
          LET pass == update_svg_colors(fs, icons_dir_ok, order, new_value)
          IN  /\ fs' = pass.fs
              /\ calls' = pass.calls
    /\ prev_fs' = fs
    /\ event' = "PreferencesUpdate:icon_color"
    /\ UNCHANGED <<step, icons_dir_ok, arg_path, arg_color, ret,
                   copy_format, max_results, searchVars, cacheVars>>

\* PreferencesUpdateEventListener.on_event for any other preference id: neither
\* branch is taken, so a new max_results is not stored.
UpdateMaxResults(new_value) ==
    /\ event # "none"
    /\ prev_fs' = fs
    /\ event' = "PreferencesUpdate:max_results"
    /\ UNCHANGED <<fs, step, engineVars, icon_color, copy_format, max_results,
                   searchVars, cacheVars>>

\* KeywordQueryEventListener.on_event, lines 71-99.
KeywordQueryEvent(q) ==
    /\ event # "none"
    /\ query' = q
    /\ IF q = <<>>
       THEN /\ items' = <<Notice("Search FontAwesome Icons")>>
            /\ UNCHANGED <<ranked, matched, cache>>
       ELSE LET r == search_icons(q, icons_data)
                res == create_results(r.result, fs, copy_format, cache, <<>>)
            IN  /\ ranked' = r.sorted
                /\ matched' = r.result
                /\ cache' = res.cache
                /\ items' = IF res.items = <<>>
                            THEN <<Notice("No matching icons found")>>
                            ELSE res.items
    /\ prev_fs' = fs
    /\ event' = "KeywordQueryEvent"
    /\ UNCHANGED <<fs, step, engineVars, icon_color, copy_format, max_results,
                   icons_data, last_key, out, did_read, prev_call, hist>>

\* ItemEnterEventListener.on_event, lines 199-200.
ItemEnterEvent ==
    /\ event # "none"
    /\ prev_fs' = fs
    /\ event' = "ItemEnterEvent"
    /\ UNCHANGED <<fs, step, engineVars, icon_color, copy_format, max_results,
                   searchVars, cacheVars>>

\* A call of get_copy_content with the argument tuple k, and the record of it.
Generate(k) ==
    /\ LET g == get_copy_content(cache, fs, k)
       IN  /\ cache' = g.cache
           /\ out' = g.out
           /\ did_read' = g.did_read
           /\ hist' = [t \in DOMAIN hist |->
                          IF t = k THEN [called |-> TRUE, out |-> g.out, others |-> {}]
                          ELSE IF hist[t].called
                               THEN [hist[t] EXCEPT !.others = @ \cup {k}]
                               ELSE hist[t]]
    /\ last_key' = k
    /\ prev_call' = IF k \in DOMAIN hist THEN hist[k] ELSE NoCall
    /\ prev_fs' = fs
    /\ event' = "get_copy_content"
    /\ UNCHANGED <<fs, engineVars, icon_color, copy_format, max_results, searchVars>>

(***************************************************************************)
(* Inputs                                                                  *)
(***************************************************************************)
MaxLen == 5

\* Color values: the default, another hex color, and the empty text.
Color == {DEFAULT_ICON_COLOR, <<"#", "f">>, <<>>}

Atom == {SVG, FILL, QUOTE, "7"}

Texts(n) == UNION {[1..k -> Atom] : k \in 0..n}

Perm == {"rw", "r", "-"}

\* The parts of the state a specification leaves idle start as follows.
IdleExtension ==
    /\ icon_color = DEFAULT_ICON_COLOR
    /\ copy_format = DEFAULT_COPY_FORMAT
    /\ max_results = 0
    /\ event = "none"

IdleSearch ==
    /\ icons_data = <<>>
    /\ query = <<>>
    /\ ranked = <<>>
    /\ matched = <<>>
    /\ items = <<>>

IdleCache ==
    /\ cache = <<>>
    /\ last_key = NoKey
    /\ out = <<>>
    /\ did_read = FALSE
    /\ prev_call = NoCall
    /\ hist = <<>>

IdleEngine ==
    /\ icons_dir_ok = TRUE
    /\ arg_path = FALLBACK_ICON
    /\ arg_color = <<>>
    /\ ret = FALSE
    /\ calls = <<>>

(***************************************************************************)
(* SpecRecolor: modify_svg_color applied twice to one file                 *)
(***************************************************************************)
InitRecolor ==
    /\ \E f \in {NoFile} \cup [content : Texts(MaxLen), perm : Perm] :
          fs = [p \in Path |-> IF p = ICON_A THEN f ELSE NoFile]
    /\ prev_fs = fs
    /\ icons_dir_ok = TRUE
    /\ arg_path = ICON_A
    /\ arg_color \in Color
    /\ ret = FALSE
    /\ calls = <<>>
    /\ step = 0
    /\ IdleExtension
    /\ IdleSearch
    /\ IdleCache

Recolor ==
    /\ step < 2
    /\ LET r == modify_svg_color(fs, arg_path, arg_color)
       IN  /\ fs' = r.fs
           /\ ret' = r.ret
    /\ prev_fs' = fs
    /\ step' = step + 1
    /\ UNCHANGED <<icons_dir_ok, arg_path, arg_color, calls,
                   extensionVars, searchVars, cacheVars>>

NextRecolor == Recolor

SpecRecolor == InitRecolor /\ [][NextRecolor]_vars


(***************************************************************************)
(* SpecRank: _search_icons applied to a catalog and a query                *)
(***************************************************************************)
MaxCatalog == 3
MaxQueryLen == 2
MaxLimit == 3

\* An icon record as setup.py writes it, with the name it is keyed by.
Icon(name, terms) ==
    [name |-> name, id |-> name, styles |-> <<"solid">>, unicode |-> <<>>,
     search_terms |-> terms]

\* The records small catalogs are drawn from.  "ab" and "Ab" are equal once
\* lower-cased, so two exact matches can tie.
IconPool ==
    { Icon(<<"a", "b">>, <<>>),
      Icon(<<"A", "b">>, <<>>),
      Icon(<<"a">>, << <<"b">> >>),
      Icon(<<"b", "a">>, << <<"A", "b">> >>),
      Icon(<<"b">>, << <<"b", "b">>, <<"A">> >>),
      Icon(<<"b", "b", "a">>, <<>>) }

\* A catalog of twelve icons, ten matching "a" by name and two by search term.
BigCatalog ==
    << Icon(<<"b">>, << <<"a">> >>),
       Icon(<<"b", "a">>, <<>>),
       Icon(<<"a", "b">>, <<>>),
       Icon(<<"A", "A">>, <<>>),
       Icon(<<"a">>, <<>>),
       Icon(<<"b", "b">>, << <<"b", "A">> >>),
       Icon(<<"A", "b">>, <<>>),
       Icon(<<"a", "a">>, <<>>),
       Icon(<<"A">>, <<>>),
       Icon(<<"b", "A">>, <<>>),
       Icon(<<"a", "A">>, <<>>),
       Icon(<<"A", "a">>, <<>>) >>

\* A JSON object keeps its keys in order and has no key twice.
Catalogs ==
    {BigCatalog} \cup
    UNION { {c \in [1..n -> IconPool] : \A i, j \in 1..n : c[i] = c[j] => i = j} :
            n \in 0..MaxCatalog }

\* The handler passes on non-empty queries only (line 74).
Queries == UNION {[1..n -> {"a", "A", "b"}] : n \in 1..MaxQueryLen}

LimitValues == (1..MaxLimit) \cup {DEFAULT_MAX_RESULTS}

InitRank ==
    /\ icons_data \in Catalogs
    /\ query \in Queries
    /\ max_results \in LimitValues
    /\ ranked = <<>>
    /\ matched = <<>>
    /\ items = <<>>
    /\ step = 0
    /\ fs = [p \in Path |-> NoFile]
    /\ prev_fs = fs
    /\ IdleEngine
    /\ icon_color = DEFAULT_ICON_COLOR
    /\ copy_format = DEFAULT_COPY_FORMAT
    /\ event = "none"
    /\ IdleCache

SearchIcons ==
    /\ step = 0
    /\ LET r == search_icons(query, icons_data)
       IN  /\ ranked' = r.sorted
           /\ matched' = r.result
    /\ step' = 1
    /\ UNCHANGED <<fs, prev_fs, engineVars, extensionVars, cacheVars,
                   icons_data, query, items>>

NextRank == SearchIcons

SpecRank == InitRank /\ [][NextRank]_vars

(***************************************************************************)
(* Properties of _search_icons (SpecRank)                                  *)
(***************************************************************************)
\* The relevance tier of a record for a lower-cased query.
Tier(icon, q) ==
    CASE Lower(icon.name) = q -> 0
      [] Lower(icon.name) # q /\ StartsWith(Lower(icon.name), q) -> 1
      [] ~StartsWith(Lower(icon.name), q) /\ Contains(Lower(icon.name), q) -> 2
      [] OTHER -> 3

\* The records of the catalog that are candidates of tier t, in catalog order.
CandidatesOfTier(t) ==
    LET q == Lower(query)
        Test(icon) ==
            /\ \/ Contains(Lower(icon.name), q)
               \/ \E term \in {icon.search_terms[k] : k \in 1..Len(icon.search_terms)} :
                      Contains(Lower(term), q)
            /\ Tier(icon, q) = t
    IN  SelectSeq(icons_data, Test)

\* C1: before the slice, the result is exactly the candidates of the catalog,
\* by tier 0, 1, 2, 3, and within a tier in catalog order.
C1_RankedByTierStable ==
    step = 1 =>
        ranked = CandidatesOfTier(0) \o CandidatesOfTier(1)
                    \o CandidatesOfTier(2) \o CandidatesOfTier(3)

\* A search with two exact matches and a match by search term only, whose
\* result is not in the order of the catalog.
C1_Witness ==
    /\ step = 1
    /\ Len(CandidatesOfTier(0)) = 2
    /\ Len(CandidatesOfTier(3)) >= 1
    /\ ranked # icons_data

\* C2: the returned list is never longer than the configured maximum, and is
\* the first max_results entries of the ranked candidates.
C2_HonoursConfiguredLimit ==
    step = 1 =>
        /\ Len(matched) <= max_results
        /\ matched = Take(ranked, max_results)

(***************************************************************************)
(* Properties of modify_svg_color (SpecRecolor)                            *)
(***************************************************************************)
\* The document before and after the last call.
Before == prev_fs[arg_path].content
After == fs[arg_path].content

\* C3: applying modify_svg_color a second time with the same color leaves the
\* file exactly as the first application left it.
C3_Idempotent == step = 2 => fs = prev_fs

\* The second application succeeded on a document that carries the color.
C3_Witness ==
    /\ step = 2
    /\ ret = TRUE
    /\ arg_color # <<>>
    /\ Contains(After, FillAttr(arg_color))

\* C7: a call on a path with no file, or on a file whose text holds no '<svg',
\* returns False and leaves the filesystem as it was.
C7_FailureLeavesFilesystem ==
    (/\ step >= 1
     /\ \/ ~Exists(prev_fs, arg_path)
        \/ ~Contains(Before, <<SVG>>))
    => (ret = FALSE /\ fs = prev_fs)

\* A call was made on a writable file that has a fill attribute of another
\* color but no '<svg'.
C7_Witness ==
    /\ step = 1
    /\ CanRead(prev_fs, arg_path) /\ CanWrite(prev_fs, arg_path)
    /\ ~Contains(Before, <<SVG>>)
    /\ Contains(Before, FillAttr(<<"7">>))
    /\ arg_color # <<"7">>

\* Whether position i of s starts a match of fill="[^"]*".
FillAt(s, i) ==
    /\ i + 1 <= Len(s)
    /\ s[i] = FILL
    /\ s[i + 1] = QUOTE
    /\ NextQuote(s, i + 2) # 0

\* s with the value of every fill="..." attribute emptied.
RECURSIVE StripFillValues(_, _)
StripFillValues(s, i) ==
    IF i > Len(s) THEN <<>>
    ELSE IF FillAt(s, i)
         THEN <<FILL, QUOTE, QUOTE>> \o StripFillValues(s, NextQuote(s, i + 2) + 1)
         ELSE <<s[i]>> \o StripFillValues(s, i + 1)

\* s with one fill attribute of the color put right after its first '<svg'.
InsertAfterFirstSvg(s, color) ==
    LET k == CHOOSE i \in 1..Len(s) : s[i] = SVG /\ \A j \in 1..(i - 1) : s[j] # SVG
    IN  SubSeq(s, 1, k) \o <<" ">> \o FillAttr(color) \o SubSeq(s, k + 1, Len(s))

\* C4: a successful call on a document with no fill attribute gives the
\* document with exactly one fill attribute of the color, right after '<svg';
\* on a document with fill="..." attributes it gives the document with the
\* value of each of them replaced by the color; nothing else changes.
C4_InsertOneOrReplaceAll ==
    (step = 1 /\ ret = TRUE) =>
        /\ ~Contains(Before, <<FILL>>) =>
               After = InsertAfterFirstSvg(Before, arg_color)
        /\ (\E i \in 1..Len(Before) : FillAt(Before, i)) =>
               /\ StripFillValues(After, 1) = StripFillValues(Before, 1)
               /\ \A i \in 1..Len(After) :
                      FillAt(After, i) =>
                          SubSeq(After, i + 2, NextQuote(After, i + 2) - 1) = arg_color


(***************************************************************************)
(* Spec: the extension under the events the host dispatches               *)
(***************************************************************************)
\* The documents an asset file may hold: an icon as downloaded, an icon with a
\* fill of another color, a document with a nested svg element, and a file
\* that is no SVG document though it has a fill attribute.
PLAIN_SVG == <<SVG, "7">>
FILLED_SVG == <<SVG, " ">> \o FillAttr(<<"#", "f">>) \o <<"7">>
NESTED_SVG == <<SVG, SVG>>
NOT_SVG == <<"7">> \o FillAttr(<<"#", "f">>)

File(content, perm) == [content |-> content, perm |-> perm]

\* The copy formats of the preference, and one the generator does not know.
Formats == {"html", "class", "unicode", "svg", "png"}

\* The catalog of the extension: the icon a, and an icon ab that has no asset
\* file and no style.
SmallCatalog ==
    << [Icon(<<"a", "b">>, << <<"B">> >>) EXCEPT !.styles = <<>>],
       Icon(<<"a">>, <<>>) >>

\* The icons directory cannot be listed when it does not exist; it then has no
\* entries.
Init ==
    /\ icons_dir_ok \in BOOLEAN
    /\ \E fallback \in {NoFile, File(PLAIN_SVG, "rw")},
          a \in {File(PLAIN_SVG, "rw"), File(FILLED_SVG, "rw"),
                 File(NOT_SVG, "rw"), File(FILLED_SVG, "r")},
          b \in {NoFile, File(NESTED_SVG, "rw")},
          n \in {File(PLAIN_SVG, "rw")} :
          fs = [p \in Path |->
                   IF p = FALLBACK_ICON THEN fallback
                   ELSE IF ~icons_dir_ok THEN NoFile
                   ELSE IF p = ICON_A THEN a
                   ELSE IF p = ICON_B THEN b
                   ELSE n]
    /\ prev_fs = fs
    /\ arg_path = FALLBACK_ICON
    /\ arg_color = <<>>
    /\ ret = FALSE
    /\ calls = <<>>
    /\ step = 0
    /\ IdleExtension
    /\ icons_data = SmallCatalog
    /\ query = <<>>
    /\ ranked = <<>>
    /\ matched = <<>>
    /\ items = <<>>
    /\ IdleCache

Next ==
    \/ \E prefs \in PreferenceValues({"html", "svg"}, Color, {1, DEFAULT_MAX_RESULTS}) :
          PreferencesEvent(prefs)
    \/ \E v \in {"html", "svg"} : UpdateCopyFormat(v)
    \/ \E v \in Color : UpdateIconColor(v)
    \/ \E v \in {1, DEFAULT_MAX_RESULTS} : UpdateMaxResults(v)
    \/ \E q \in {<<>>, <<"A">>} : KeywordQueryEvent(q)
    \/ ItemEnterEvent

Spec == Init /\ [][Next]_vars


(***************************************************************************)
(* Properties of the recolor pass and of the preference handlers (Spec)    *)
(***************************************************************************)
\* The last event ran update_svg_colors with icon_color.
PassEvent == event \in {"PreferencesEvent", "PreferencesUpdate:icon_color"}

\* The files a pass is to recolor: the fallback icon and the .svg entries.
SvgAssets(files) ==
    {FALLBACK_ICON} \cup {p \in IconsDirEntries : EndsWithSvg(p) /\ Exists(files, p)}

\* A file that can be read and written and whose text holds '<svg'.
ValidSvg(files, p) ==
    /\ CanRead(files, p)
    /\ CanWrite(files, p)
    /\ Contains(files[p].content, <<SVG>>)

\* The document has a fill attribute, and each one it has is of the color.
Carries(s, color) ==
    /\ \E i \in 1..Len(s) : FillAt(s, i)
    /\ \A i \in 1..Len(s) :
          FillAt(s, i) => SubSeq(s, i + 2, NextQuote(s, i + 2) - 1) = color

\* C5: a pass calls modify_svg_color on the fallback icon first and then on
\* each .svg entry of the icons directory once, and every valid SVG file among
\* them ends up with the requested color, whichever of the others failed.
C5_PassRecolorsEveryValidFile ==
    PassEvent =>
        /\ Len(calls) = Cardinality(SvgAssets(prev_fs))
        /\ calls[1] = FALLBACK_ICON
        /\ {calls[i] : i \in 2..Len(calls)} = SvgAssets(prev_fs) \ {FALLBACK_ICON}
        /\ \A p \in SvgAssets(prev_fs) :
              ValidSvg(prev_fs, p) => Carries(fs[p].content, icon_color)
        /\ \A p \in Path :
              ~(p \in SvgAssets(prev_fs) /\ ValidSvg(prev_fs, p)) => fs[p] = prev_fs[p]

\* A pass with no fallback icon, in which a.svg was visited first and could not
\* be recolored, and b.svg was recolored after it.
C5_Witness ==
    /\ PassEvent
    /\ ~Exists(prev_fs, FALLBACK_ICON)
    /\ calls = <<FALLBACK_ICON, ICON_A, ICON_B>>
    /\ ~ValidSvg(prev_fs, ICON_A)
    /\ ValidSvg(prev_fs, ICON_B)
    /\ fs[ICON_B] # prev_fs[ICON_B]

\* C9: once the preferences event has run, every valid SVG asset carries
\* icon_color as its fill whenever the extension waits for an event; icon_color
\* changes in the two preference handlers only; and a copy_format update
\* changes neither icon_color nor any file.
C9_AssetsFollowColorPreference ==
    /\ [](event # "none" =>
             \A p \in SvgAssets(fs) :
                 ValidSvg(fs, p) => Carries(fs[p].content, icon_color))
    /\ [][icon_color' # icon_color => event' \in {"PreferencesEvent",
                                                  "PreferencesUpdate:icon_color"}]_vars
    /\ [][event' = "PreferencesUpdate:copy_format" =>
             UNCHANGED <<icon_color, fs>>]_vars

\* A copy_format update arrived after the color was changed from its default,
\* with valid assets in place.
C9_Witness ==
    /\ event = "PreferencesUpdate:copy_format"
    /\ icon_color # DEFAULT_ICON_COLOR
    /\ copy_format # DEFAULT_COPY_FORMAT
    /\ ValidSvg(fs, FALLBACK_ICON)
    /\ ValidSvg(fs, ICON_A)
    /\ ValidSvg(fs, ICON_B)


(***************************************************************************)
(* SpecContent: get_copy_content called twice on a fresh cache             *)
(***************************************************************************)
\* Argument tuples: every format, an icon with an asset path (a) and one
\* without (z), four styles, with and without a unicode value.
Keys ==
    { [format_type |-> f, icon_name |-> n, icon_id |-> n, unicode_value |-> u,
       style |-> st, base_dir |-> BASE_DIR] :
      f \in Formats, n \in {<<"a">>, <<"z">>}, u \in {<<>>, <<"f", "0">>},
      st \in {"solid", "regular", "brands", "duotone"} }

InitContent ==
    /\ \E a \in {NoFile, File(FILLED_SVG, "rw"), File(FILLED_SVG, "-")} :
          fs = [p \in Path |-> IF p = ICON_A THEN a ELSE NoFile]
    /\ prev_fs = fs
    /\ step = 0
    /\ IdleEngine
    /\ IdleExtension
    /\ IdleSearch
    /\ cache = <<>>
    /\ last_key = NoKey
    /\ out = <<>>
    /\ did_read = FALSE
    /\ prev_call = NoCall
    /\ hist = [k \in Keys |-> NoCall]

GenerateAny ==
    /\ step < 2
    /\ step' = step + 1
    /\ \E k \in Keys : Generate(k)

NextContent == GenerateAny

SpecContent == InitContent /\ [][NextContent]_vars

\* C8: a call that asks for svg when the asset is missing or unreadable, or
\* for a format the generator does not know, returns the html text of the icon
\* name and style, with style code s for solid, r for regular, b otherwise.
C8_FallbackIsHtml ==
    (/\ last_key # NoKey
     /\ \/ /\ last_key.format_type = "svg"
           /\ ~CanRead(fs, SvgPath(last_key.icon_id))
        \/ last_key.format_type \notin {"html", "class", "unicode", "svg"})
    => out = <<"<i class=\"fa",
               CASE last_key.style = "solid" -> "s"
                 [] last_key.style = "regular" -> "r"
                 [] OTHER -> "b",
               " fa-">> \o last_key.icon_name \o <<"\"></i>">>

\* A call asked for the svg of an icon whose asset exists but cannot be read.
C8_Witness ==
    /\ last_key.format_type = "svg"
    /\ Exists(fs, SvgPath(last_key.icon_id))
    /\ ~CanRead(fs, SvgPath(last_key.icon_id))
    /\ last_key.style = "duotone"
    /\ out # <<>>

(***************************************************************************)
(* SpecGen: get_copy_content between recolor passes and other calls        *)
(***************************************************************************)
MaxOther == 65

\* The tuple followed through the run: the svg content of icon a.
SVG_A == KeyOf("svg", Icon(<<"a">>, <<>>))

\* The n-th other tuple: the html content of an icon named by n.
Other(n) == KeyOf("html", Icon(<<ToString(n)>>, <<>>))

InitGen ==
    /\ fs = [p \in Path |->
                IF p = ICON_A
                THEN File(NewSvgContent(PLAIN_SVG, DEFAULT_ICON_COLOR), "rw")
                ELSE NoFile]
    /\ prev_fs = fs
    /\ step = 0
    /\ IdleEngine
    /\ icon_color = DEFAULT_ICON_COLOR
    /\ copy_format = "svg"
    /\ max_results = DEFAULT_MAX_RESULTS
    /\ event = "PreferencesEvent"
    /\ IdleSearch
    /\ cache = <<>>
    /\ last_key = NoKey
    /\ out = <<>>
    /\ did_read = FALSE
    /\ prev_call = NoCall
    /\ hist = [k \in {SVG_A} |-> NoCall]

GenerateTracked ==
    /\ Generate(SVG_A)
    /\ UNCHANGED step

GenerateOther ==
    /\ step < MaxOther
    /\ step' = step + 1
    /\ Generate(Other(step + 1))

ChangeColor ==
    \E v \in {DEFAULT_ICON_COLOR, <<"#", "f">>} :
        /\ v # icon_color
        /\ UpdateIconColor(v)

NextGen ==
    \/ GenerateTracked
    \/ GenerateOther
    \/ ChangeColor

SpecGen == InitGen /\ [][NextGen]_vars

\* The last direct call repeated an earlier call of the same tuple.
Repeated == last_key # NoKey /\ prev_call.called

\* C6 as stated: a repeated call returns what the earlier call returned and
\* does not open the file, whatever was called or recolored in between.
C6_RepeatAlwaysCached ==
    Repeated => (out = prev_call.out /\ ~did_read)

\* C6, amended: the same, when fewer than maxsize other tuples were called
\* between the two calls.
C6_RepeatCachedUntilEvicted ==
    (Repeated /\ Cardinality(prev_call.others) < maxsize)
    => (out = prev_call.out /\ ~did_read)

\* A repeated call, with other tuples called and the asset recolored in
\* between, returned the earlier output.
C6_Witness ==
    /\ Repeated
    /\ Cardinality(prev_call.others) = maxsize - 1
    /\ fs[ICON_A].content # out
    /\ out = prev_call.out
    /\ ~did_read

\* C10: a recolor pass leaves the cache alone.  A repeated svg call returns the
\* content read at the earlier call, recolored since or not, as long as fewer
\* than maxsize other tuples were called in between; after maxsize others it
\* reads the file again and returns its current content.
C10_StaleUntilEvicted ==
    /\ [](event = "get_copy_content" /\ Repeated /\ last_key.format_type = "svg" =>
             IF Cardinality(prev_call.others) < maxsize
             THEN out = prev_call.out /\ ~did_read
             ELSE out = fs[SvgPath(last_key.icon_id)].content /\ did_read)
    /\ [][event' = "PreferencesUpdate:icon_color" => cache' = cache]_vars

\* A repeated svg call returned content that the file no longer holds.
C10_Witness ==
    /\ event = "get_copy_content"
    /\ Repeated
    /\ last_key.format_type = "svg"
    /\ out # fs[SvgPath(last_key.icon_id)].content
    /\ Contains(out, FillAttr(DEFAULT_ICON_COLOR))
    /\ Contains(fs[SvgPath(last_key.icon_id)].content, FillAttr(<<"#", "f">>))

====
